---- MODULE Spec2Model ----
(***************************************************************************)
(* Task store (src/src/services/crud.py), its REST and tool surfaces       *)
(* (src/src/api/tasks.py, src/mcp_server.py) and the chat agent            *)
(* (src/src/agent.py): intent parser and command executor.                 *)
(*                                                                         *)
(* Python strings are TLA+ strings; a character is a string of length 1.   *)
(* Optional[T] is a sequence: <<>> is None, <<v>> is the value v.          *)
(***************************************************************************)
EXTENDS Integers, Sequences, FiniteSets, TLC

(***************************************************************************)
(* Python string primitives used by the agent                              *)
(***************************************************************************)

None == <<>>

Some(v) == <<v>>

IsNone(o) == Len(o) = 0

Ch(s, i) == SubSeq(s, i, i)

UpperAlpha == "ABCDEFGHIJKLMNOPQRSTUVWXYZ"

LowerAlpha == "abcdefghijklmnopqrstuvwxyz"

DigitChars == "0123456789"

\* 1-based index of character c in the string s, 0 when absent
IndexOfCh(s, c) ==
    IF \E i \in 1..Len(s) : Ch(s, i) = c
    THEN CHOOSE i \in 1..Len(s) : Ch(s, i) = c /\ \A j \in 1..(i - 1) : Ch(s, j) # c
    ELSE 0

LowerCh(c) ==
    LET i == IndexOfCh(UpperAlpha, c) IN IF i = 0 THEN c ELSE Ch(LowerAlpha, i)

UpperCh(c) ==
    LET i == IndexOfCh(LowerAlpha, c) IN IF i = 0 THEN c ELSE Ch(UpperAlpha, i)

RECURSIVE PyLower(_)
\* str.lower()
PyLower(s) == IF s = "" THEN "" ELSE LowerCh(Head(s)) \o PyLower(Tail(s))

RECURSIVE PyUpper(_)
\* str.upper()
PyUpper(s) == IF s = "" THEN "" ELSE UpperCh(Head(s)) \o PyUpper(Tail(s))

IsDigitCh(c) == IndexOfCh(DigitChars, c) # 0

\* \s of the re module and the default character set of str.strip()
IsSpaceCh(c) == c \in {" ", "\n", "\t"}

\* \w of the re module
IsWordCh(c) ==
    \/ IndexOfCh(LowerAlpha, c) # 0
    \/ IndexOfCh(UpperAlpha, c) # 0
    \/ IsDigitCh(c)
    \/ c = "_"

\* s[i-1:] in Python terms (1-based i)
From(s, i) == SubSeq(s, i, Len(s))

\* s.startswith(p, i-1)
MatchAt(s, p, i) == i + Len(p) - 1 <= Len(s) /\ SubSeq(s, i, i + Len(p) - 1) = p

PyStartsWith(s, p) == MatchAt(s, p, 1)

\* `p in s`
PyContains(s, p) == \E i \in 1..(Len(s) - Len(p) + 1) : MatchAt(s, p, i)

\* s.find(p) + 1: the 1-based index of the first occurrence, 0 when absent
PyFind(s, p) ==
    IF PyContains(s, p)
    THEN CHOOSE i \in 1..(Len(s) - Len(p) + 1) :
            MatchAt(s, p, i) /\ \A j \in 1..(i - 1) : ~MatchAt(s, p, j)
    ELSE 0

RECURSIVE LStripIf(_, _)
LStripIf(s, chars) ==
    IF s # "" /\ Head(s) \in chars THEN LStripIf(Tail(s), chars) ELSE s

RECURSIVE RStripIf(_, _)
RStripIf(s, chars) ==
    IF s # "" /\ Ch(s, Len(s)) \in chars
    THEN RStripIf(SubSeq(s, 1, Len(s) - 1), chars)
    ELSE s

\* str.strip()
PyStrip(s) == RStripIf(LStripIf(s, {" ", "\n", "\t"}), {" ", "\n", "\t"})

\* str.strip(c) for a single character c
PyStripCh(s, c) == RStripIf(LStripIf(s, {c}), {c})

RECURSIVE PyReplaceEmpty(_, _)
\* s.replace(old, "")
PyReplaceEmpty(s, old) ==
    IF s = "" THEN ""
    ELSE IF MatchAt(s, old, 1) THEN PyReplaceEmpty(From(s, Len(old) + 1), old)
    ELSE Head(s) \o PyReplaceEmpty(Tail(s), old)

\* s.split(sep, 1)
PySplitOnce(s, sep) ==
    LET i == PyFind(s, sep) IN
    IF i = 0 THEN <<s>>
    ELSE <<SubSeq(s, 1, i - 1), From(s, i + Len(sep))>>

RECURSIVE PySplitLines(_)
\* s.split('\n')
PySplitLines(s) ==
    LET i == PyFind(s, "\n") IN
    IF i = 0 THEN <<s>>
    ELSE <<SubSeq(s, 1, i - 1)>> \o PySplitLines(From(s, i + 1))

RECURSIVE TakeDigits(_)
TakeDigits(s) ==
    IF s # "" /\ IsDigitCh(Head(s)) THEN Head(s) \o TakeDigits(Tail(s)) ELSE ""

RECURSIVE FirstDigitRun(_)
\* re.findall(r'\d+', s)[0], or "" when the list is empty
FirstDigitRun(s) ==
    IF s = "" THEN ""
    ELSE IF IsDigitCh(Head(s)) THEN TakeDigits(s)
    ELSE FirstDigitRun(Tail(s))

RECURSIVE PyInt(_)
\* int(s) for a non-empty string of digits
PyInt(s) ==
    IF s = "" THEN 0
    ELSE PyInt(SubSeq(s, 1, Len(s) - 1)) * 10 + (IndexOfCh(DigitChars, Ch(s, Len(s))) - 1)

RECURSIVE PyStr(_)
\* str(n) for a non-negative int
PyStr(n) ==
    IF n < 10 THEN Ch(DigitChars, n + 1)
    ELSE PyStr(n \div 10) \o Ch(DigitChars, (n % 10) + 1)

\* does r'\bword\b' (IGNORECASE) match s at index i; word is made of \w characters
WordMatchAt(s, word, i) ==
    /\ i + Len(word) - 1 <= Len(s)
    /\ PyLower(SubSeq(s, i, i + Len(word) - 1)) = PyLower(word)
    /\ (i = 1 \/ ~IsWordCh(Ch(s, i - 1)))
    /\ (i + Len(word) > Len(s) \/ ~IsWordCh(Ch(s, i + Len(word))))

RECURSIVE ReSubWordFrom(_, _, _)
ReSubWordFrom(s, word, i) ==
    IF i > Len(s) THEN ""
    ELSE IF WordMatchAt(s, word, i) THEN ReSubWordFrom(s, word, i + Len(word))
    ELSE Ch(s, i) \o ReSubWordFrom(s, word, i + 1)

\* re.sub(rf'\b{word}\b', '', s, flags=re.IGNORECASE)
ReSubWord(s, word) == ReSubWordFrom(s, word, 1)

RECURSIVE ReSubWords(_, _)
\* the loop `for word in words: s = re.sub(rf'\b{word}\b', '', s, flags=re.IGNORECASE)`
ReSubWords(s, words) ==
    IF words = <<>> THEN s
    ELSE ReSubWords(ReSubWord(s, Head(words)), Tail(words))

\* re.sub(rf'.*?{tid}\s*', '', s, count=1) for a digit string tid that is the first
\* digit run of s: the match starts after the last newline before the run ('.' does
\* not match a newline) and ends after the whitespace that follows the run
ReSubUpToId(s, tid) ==
    LET q == PyFind(s, tid)
        nl == {j \in 1..(q - 1) : Ch(s, j) = "\n"}
        p == IF nl = {} THEN 1 ELSE (CHOOSE j \in nl : \A k \in nl : k <= j) + 1
        rest == LStripIf(From(s, q + Len(tid)), {" ", "\n", "\t"})
    IN IF q = 0 THEN s ELSE SubSeq(s, 1, p - 1) \o rest


(***************************************************************************)
(* Intent parser: src/src/agent.py                                         *)
(***************************************************************************)

\* outcome of a Python call: a returned value or a raised exception
Returned(v) == [ok |-> TRUE, val |-> v]

Raised(e) == [ok |-> FALSE, exc |-> e]

\* intent_mapping of _parse_intent_line, in declaration order
intent_mapping ==
    << <<"ADD", "add_task">>, <<"LIST", "list_tasks">>, <<"SHOW", "list_tasks">>,
       <<"GET", "list_tasks">>, <<"COMPLETE", "complete_task">>, <<"MARK", "complete_task">>,
       <<"DELETE", "delete_task">>, <<"REMOVE", "delete_task">>, <<"UPDATE", "update_task">>,
       <<"EDIT", "update_task">>, <<"MODIFY", "update_task">> >>

\* the `for key, value in intent_mapping.items(): if key in intent_str: ... break` loop
MapIntent(intent_str, old) ==
    LET hits == {k \in 1..Len(intent_mapping) : PyContains(intent_str, intent_mapping[k][1])}
    IN IF hits = {} THEN old
       ELSE intent_mapping[CHOOSE k \in hits : \A j \in hits : k <= j][2]

_parse_intent_line(line0, result) ==
    LET line == PyStrip(line0) IN
    IF PyStartsWith(line, "INTENT:")
    THEN [result EXCEPT !.intent =
            MapIntent(PyUpper(PyStrip(PyReplaceEmpty(line, "INTENT:"))), result.intent)]
    ELSE IF PyStartsWith(line, "TITLE:")
    THEN [result EXCEPT !.task_title = PyStrip(PyReplaceEmpty(line, "TITLE:"))]
    ELSE IF PyStartsWith(line, "TASK_ID:")
    THEN LET numbers == FirstDigitRun(PyStrip(PyReplaceEmpty(line, "TASK_ID:")))
         IN IF numbers # "" THEN [result EXCEPT !.task_id = Some(PyInt(numbers))] ELSE result
    ELSE IF PyStartsWith(line, "DESCRIPTION:")
    THEN [result EXCEPT !.params.description =
            Some(PyStrip(PyReplaceEmpty(line, "DESCRIPTION:")))]
    ELSE IF PyStartsWith(line, "COMPLETED:")
    THEN [result EXCEPT !.params.completed =
            Some(PyLower(PyStrip(PyReplaceEmpty(line, "COMPLETED:"))) \in {"true", "yes", "1"})]
    ELSE result

RECURSIVE ParseLines(_, _)
ParseLines(lines, result) ==
    IF lines = <<>> THEN result
    ELSE ParseLines(Tail(lines), _parse_intent_line(Head(lines), result))

_extract_intent_and_params(gemini_response) ==
    ParseLines(PySplitLines(PyStrip(gemini_response)),
               [intent |-> "unknown",
                params |-> [description |-> None, completed |-> None],
                task_title |-> "",
                task_id |-> None])

\* takes the part before " to " instead of the part after it
SplitToTail_TakesHead(message) ==
    LET parts == PySplitOnce(message, " to ") IN
    IF Len(parts) < 2 THEN Raised("IndexError") ELSE Returned(PyStrip(parts[1]))

\* message.split(" to ", 1)[1].strip(): the index raises when the split has one part
SplitToTail(message) ==
    LET parts == PySplitOnce(message, " to ") IN
    IF Len(parts) < 2 THEN Raised("IndexError") ELSE Returned(PyStrip(parts[2]))

_extract_update_title(message, message_lower, task_id) ==
    IF PyContains(message_lower, " to ") THEN SplitToTail(message)
    ELSE IF task_id # "" THEN Returned(PyStrip(ReSubUpToId(message, task_id)))
    ELSE Returned("")

_detect_update_intent(message_lower, message) ==
    LET task_id == FirstDigitRun(message)
        title == _extract_update_title(message, message_lower, task_id)
    IN IF title.ok
       THEN Returned("INTENT: UPDATE\nTASK_ID: " \o task_id \o "\nTITLE: " \o title.val)
       ELSE title

_detect_complete_intent(message) ==
    Returned("INTENT: COMPLETE\nTASK_ID: " \o FirstDigitRun(message))

_detect_delete_intent(message) ==
    Returned("INTENT: DELETE\nTASK_ID: " \o FirstDigitRun(message))

_detect_add_intent(message, message_lower) ==
    LET stripped == ReSubWords(message, <<"add", "create", "new", "remember", "task", "a">>)
        title == IF PyContains(message_lower, " to ")
                 THEN SplitToTail(message)
                 ELSE Returned(PyStrip(stripped))
    IN IF title.ok
       THEN Returned("INTENT: ADD\nTITLE: "
                     \o PyStrip(PyStripCh(PyStripCh(title.val, "\""), "'")))
       ELSE title

ContainsAny(s, words) == \E w \in words : PyContains(s, w)

_fallback_intent(message) ==
    LET message_lower == PyLower(message) IN
    IF ContainsAny(message_lower, {"update", "change", "edit", "modify"})
    THEN _detect_update_intent(message_lower, message)
    ELSE IF ContainsAny(message_lower, {"complete", "done", "finish", "mark"})
    THEN _detect_complete_intent(message)
    ELSE IF ContainsAny(message_lower, {"get rid of", "get rid", "delete", "remove",
                                        "cancel", "erase", "trash", "discard"})
    THEN _detect_delete_intent(message)
    ELSE IF ContainsAny(message_lower, {"add", "create", "new", "remember"})
    THEN _detect_add_intent(message, message_lower)
    ELSE IF ContainsAny(message_lower, {"list", "show", "what", "display", "all", "tasks"})
    THEN Returned("INTENT: LIST")
    ELSE Returned("INTENT: UNKNOWN")

(***************************************************************************)
(* Task store: src/src/services/crud.py over the Task table of             *)
(* src/src/models/__init__.py.  A database db is the table (a function     *)
(* from the ids of the stored rows to the rows) and the id sequence.       *)
(* `at` is the value datetime.utcnow() returns during the operation.       *)
(***************************************************************************)

\* Task with completed_at stamped at construction
Task_StampedAtCreation(id, user_id, title, description, completed, at) ==
    [id |-> id, user_id |-> user_id, title |-> title, description |-> description,
     completed |-> completed, created_at |-> at, updated_at |-> at, completed_at |-> Some(at)]

\* Task(title=..., description=..., completed=..., user_id=...) as the INSERT stores it
Task(id, user_id, title, description, completed, at) ==
    [id |-> id, user_id |-> user_id, title |-> title, description |-> description,
     completed |-> completed, created_at |-> at, updated_at |-> at, completed_at |-> None]

\* SelectOwned with the owner condition of the query left out
SelectOwned_AnyOwner(db, user_id, task_id) ==
    IF task_id \in DOMAIN db.tasks THEN Some(db.tasks[task_id]) ELSE None

\* select(Task).where(and_(Task.id == task_id, Task.user_id == user_id)) ... scalar_one_or_none()
SelectOwned(db, user_id, task_id) ==
    IF task_id \in DOMAIN db.tasks /\ db.tasks[task_id].user_id = user_id
    THEN Some(db.tasks[task_id])
    ELSE None

Commit(db, task) == [db EXCEPT !.tasks = [i \in DOMAIN db.tasks |-> IF i = task.id THEN task ELSE db.tasks[i]]]

create_task(db, at, user_id, task_data) ==
    LET task == Task(db.next_id, user_id, task_data.title, task_data.description,
                     task_data.completed, at)
    IN [db |-> [tasks |-> [i \in DOMAIN db.tasks \cup {task.id} |->
                              IF i = task.id THEN task ELSE db.tasks[i]],
                next_id |-> db.next_id + 1],
        res |-> task]

\* get_tasks without the owner condition
get_tasks_AllUsers(db, user_id, status) ==
    LET query == {db.tasks[i] : i \in DOMAIN db.tasks}
    IN IF status = "pending" THEN {r \in query : r.completed = FALSE}
       ELSE IF status = "completed" THEN {r \in query : r.completed = TRUE}
       ELSE query

get_tasks(db, user_id, status) ==
    LET query == {r \in {db.tasks[i] : i \in DOMAIN db.tasks} : r.user_id = user_id}
    IN IF status = "pending" THEN {r \in query : r.completed = FALSE}
       ELSE IF status = "completed" THEN {r \in query : r.completed = TRUE}
       ELSE query

\* get_task selecting by id alone
get_task_AnyOwner(db, user_id, task_id) ==
    IF task_id \in DOMAIN db.tasks THEN Some(db.tasks[task_id]) ELSE None

get_task(db, user_id, task_id) == SelectOwned(db, user_id, task_id)

\* the `if task_data.completed is not None:` block: the flag is assigned first and
\* the transition test then reads the flag it has just assigned
ApplyCompleted(task, completed, at) ==
    LET assigned == [task EXCEPT !.completed = completed] IN
    IF completed /\ ~assigned.completed THEN [assigned EXCEPT !.completed_at = Some(at)]
    ELSE IF ~completed THEN [assigned EXCEPT !.completed_at = None]
    ELSE assigned

\* update_task without the refresh of updated_at
update_task_KeepsUpdatedAt(db, at, user_id, task_id, task_data) ==
    LET found == SelectOwned(db, user_id, task_id) IN
    IF IsNone(found) THEN [db |-> db, res |-> None]
    ELSE LET t0 == found[1]
             t1 == IF IsNone(task_data.title) THEN t0
                   ELSE [t0 EXCEPT !.title = task_data.title[1]]
             t2 == IF IsNone(task_data.description) THEN t1
                   ELSE [t1 EXCEPT !.description = task_data.description]
             t3 == IF IsNone(task_data.completed) THEN t2
                   ELSE ApplyCompleted(t2, task_data.completed[1], at)
         IN [db |-> Commit(db, t3), res |-> Some(t3)]

update_task(db, at, user_id, task_id, task_data) ==
    LET found == SelectOwned(db, user_id, task_id) IN
    IF IsNone(found) THEN [db |-> db, res |-> None]
    ELSE LET t0 == found[1]
             t1 == IF IsNone(task_data.title) THEN t0
                   ELSE [t0 EXCEPT !.title = task_data.title[1]]
             t2 == IF IsNone(task_data.description) THEN t1
                   ELSE [t1 EXCEPT !.description = task_data.description]
             t3 == IF IsNone(task_data.completed) THEN t2
                   ELSE ApplyCompleted(t2, task_data.completed[1], at)
             t4 == [t3 EXCEPT !.updated_at = at]
         IN [db |-> Commit(db, t4), res |-> Some(t4)]

\* delete_task that reports success without deleting the row
delete_task_KeepsRow(db, user_id, task_id) ==
    LET found == SelectOwned(db, user_id, task_id) IN
    IF IsNone(found) THEN [db |-> db, res |-> FALSE]
    ELSE [db |-> db, res |-> TRUE]

\* delete_task that reports success although it found no row to delete
delete_task_ReportsSuccess(db, user_id, task_id) ==
    LET found == SelectOwned(db, user_id, task_id) IN
    IF IsNone(found) THEN [db |-> db, res |-> TRUE]
    ELSE [db |-> [db EXCEPT !.tasks = [i \in DOMAIN db.tasks \ {task_id} |-> db.tasks[i]]],
          res |-> TRUE]

delete_task(db, user_id, task_id) ==
    LET found == SelectOwned(db, user_id, task_id) IN
    IF IsNone(found) THEN [db |-> db, res |-> FALSE]
    ELSE [db |-> [db EXCEPT !.tasks = [i \in DOMAIN db.tasks \ {task_id} |-> db.tasks[i]]],
          res |-> TRUE]

complete_task(db, at, user_id, task_id, completed) ==
    LET found == SelectOwned(db, user_id, task_id) IN
    IF IsNone(found) THEN [db |-> db, res |-> None]
    ELSE LET t1 == [found[1] EXCEPT !.completed = completed,
                                     !.completed_at = IF completed THEN Some(at) ELSE None,
                                     !.updated_at = at]
         IN [db |-> Commit(db, t1), res |-> Some(t1)]

\* TaskCreate / TaskUpdate payloads
TaskCreate(title, description, completed) ==
    [title |-> title, description |-> description, completed |-> completed]

TaskUpdate(title, description, completed) ==
    [title |-> title, description |-> description, completed |-> completed]

(***************************************************************************)
(* Command executor: src/src/agent.py.  A reply is a record whose text     *)
(* field is the Python string without its emoji characters; the task       *)
(* listing carries the two partitions it renders.                          *)
(***************************************************************************)

Reply(text) == [text |-> text]

\* `not task_id` for an Optional[int]
NoTaskId(task_id) == IsNone(task_id) \/ task_id[1] = 0

\* task_title.strip().strip('"').strip("'").strip()
AddCleanTitle(task_title) ==
    PyStrip(PyStripCh(PyStripCh(PyStrip(task_title), "\""), "'"))

_handle_add_task(db, at, user_id, task_title) ==
    IF task_title = ""
    THEN [db |-> db,
          response |-> Reply("I need to know what task you want to add. Please specify a task title.")]
    ELSE LET created == create_task(db, at, user_id,
                                    TaskCreate(AddCleanTitle(task_title), Some(""), FALSE))
         IN [db |-> created.db,
             response |-> Reply("Task added successfully!\n\nTask ID: " \o PyStr(created.res.id)
                                \o "\nTitle: " \o created.res.title)]

RECURSIVE InIdOrder(_)
\* result.scalars().all(): the selected rows as a list, each row once; the query has no
\* ORDER BY and the rows are taken in the order of their ids
InIdOrder(rows) ==
    IF rows = {} THEN <<>>
    ELSE LET first == CHOOSE r \in rows : \A q \in rows : r.id <= q.id
         IN <<first>> \o InIdOrder(rows \ {first})

\* the loop that renders one section of the list: one entry for each task of the list
SectionEntries(section, rows) ==
    LET list == InIdOrder(rows) IN
    [k \in 1..Len(list) |-> [section |-> section, task |-> list[k]]]

_build_task_list_response(pending, completed) ==
    [text |-> "YOUR TASKS", pending |-> pending, completed |-> completed,
     entries |-> SectionEntries("pending", pending) \o SectionEntries("completed", completed),
     total |-> Cardinality(pending) + Cardinality(completed),
     n_pending |-> Cardinality(pending), n_completed |-> Cardinality(completed)]

\* _handle_list_tasks with every task in the completed list
_handle_list_tasks_CompletedIsAll(db, user_id) ==
    LET tasks_ == get_tasks(db, user_id, "all") IN
    IF tasks_ = {}
    THEN [db |-> db,
          response |-> Reply("You don't have any tasks yet. Try adding one by saying 'Add a task to...'")]
    ELSE [db |-> db,
          response |-> _build_task_list_response({t \in tasks_ : ~t.completed}, tasks_)]

_handle_list_tasks(db, user_id) ==
    LET tasks_ == get_tasks(db, user_id, "all") IN
    IF tasks_ = {}
    THEN [db |-> db,
          response |-> Reply("You don't have any tasks yet. Try adding one by saying 'Add a task to...'")]
    ELSE [db |-> db,
          response |-> _build_task_list_response({t \in tasks_ : ~t.completed},
                                                 {t \in tasks_ : t.completed})]

\* str(e) of the AttributeError raised by `updated_task.title` when update_task
\* returned None; the handler's except clause renders it
NoneTypeTitle == "'NoneType' object has no attribute 'title'"

NotFoundReply(task_id) ==
    Reply("Task " \o PyStr(task_id) \o " not found or doesn't belong to you.")

\* _handle_complete_task without the `if task.completed` early return
_handle_complete_task_NoCompletedCheck(db, at, user_id, task_id) ==
    IF NoTaskId(task_id)
    THEN [db |-> db,
          response |-> Reply("Please specify which task to mark as complete (e.g., 'mark task 3 as complete')")]
    ELSE LET task == get_task(db, user_id, task_id[1]) IN
         IF IsNone(task) THEN [db |-> db, response |-> NotFoundReply(task_id[1])]
         ELSE LET updated == update_task(db, at, user_id, task_id[1],
                                         TaskUpdate(None, None, Some(TRUE)))
              IN [db |-> updated.db,
                  response |->
                     IF IsNone(updated.res)
                     THEN Reply("Sorry, I couldn't mark the task as complete. Error: "
                                \o NoneTypeTitle)
                     ELSE Reply("Task " \o PyStr(task_id[1]) \o " marked as complete!\n\n'"
                                \o updated.res[1].title \o "' is now done. Great job! ")]

_handle_complete_task(db, at, user_id, task_id) ==
    IF NoTaskId(task_id)
    THEN [db |-> db,
          response |-> Reply("Please specify which task to mark as complete (e.g., 'mark task 3 as complete')")]
    ELSE LET task == get_task(db, user_id, task_id[1]) IN
         IF IsNone(task) THEN [db |-> db, response |-> NotFoundReply(task_id[1])]
         ELSE IF task[1].completed
         THEN [db |-> db,
               response |-> Reply("Task " \o PyStr(task_id[1]) \o " '" \o task[1].title
                                  \o "' is already completed!")]
         ELSE LET updated == update_task(db, at, user_id, task_id[1],
                                         TaskUpdate(None, None, Some(TRUE)))
              IN [db |-> updated.db,
                  response |->
                     IF IsNone(updated.res)
                     THEN Reply("Sorry, I couldn't mark the task as complete. Error: "
                                \o NoneTypeTitle)
                     ELSE Reply("Task " \o PyStr(task_id[1]) \o " marked as complete!\n\n'"
                                \o updated.res[1].title \o "' is now done. Great job! ")]

_handle_delete_task(db, user_id, task_id) ==
    IF NoTaskId(task_id)
    THEN [db |-> db,
          response |-> Reply("Please specify which task to delete (e.g., 'delete task 3')")]
    ELSE LET task == get_task(db, user_id, task_id[1]) IN
         IF IsNone(task) THEN [db |-> db, response |-> NotFoundReply(task_id[1])]
         ELSE LET deleted == delete_task(db, user_id, task_id[1]) IN
              [db |-> deleted.db,
               response |-> IF deleted.res
                            THEN Reply("Task " \o PyStr(task_id[1]) \o " '" \o task[1].title
                                       \o "' has been deleted.")
                            ELSE Reply("Failed to delete task " \o PyStr(task_id[1]) \o ".")]

_clean_task_title(task_title, task_id) ==
    LET cleaned == ReSubWords(task_title,
                              <<"update", "task", "to", PyStr(task_id), "change", "edit", "modify">>)
    IN PyStrip(PyStripCh(PyStripCh(PyStrip(cleaned), "\""), "'"))

_handle_update_task(db, at, user_id, task_id, task_title) ==
    IF NoTaskId(task_id)
    THEN [db |-> db,
          response |-> Reply("Please specify which task to update (e.g., 'update task 3 to call mom')")]
    ELSE IF task_title = ""
    THEN [db |-> db, response |-> Reply("Please specify what you want to update the task to.")]
    ELSE LET task == get_task(db, user_id, task_id[1]) IN
         IF IsNone(task) THEN [db |-> db, response |-> NotFoundReply(task_id[1])]
         ELSE LET updated == update_task(db, at, user_id, task_id[1],
                                TaskUpdate(Some(_clean_task_title(task_title, task_id[1])), None, None))
              IN [db |-> updated.db,
                  response |->
                     IF IsNone(updated.res)
                     THEN Reply("Sorry, I couldn't update the task. Error: " \o NoneTypeTitle)
                     ELSE Reply("Task " \o PyStr(task_id[1]) \o " updated!\n\nOld: '"
                                \o task[1].title \o "'\nNew: '" \o updated.res[1].title \o "'")]

_get_help_message ==
    Reply("I can help you manage your tasks! Try:\n\n"
          \o "- \"Add a task to buy groceries\"\n- \"Show me all my tasks\"  \n"
          \o "- \"Mark task 5 as complete\"\n- \"Delete task 3\"\n"
          \o "- \"Update task 2 to call mom tonight\"\n\nWhat would you like to do?")

\* reports the intent as a tool call whether or not a handler exists for it
_execute_intent_RecordsEveryIntent(db, at, intent, parsed, user_id) ==
    LET ran == IF intent = "add_task" THEN _handle_add_task(db, at, user_id, parsed.task_title)
               ELSE IF intent = "list_tasks" THEN _handle_list_tasks(db, user_id)
               ELSE IF intent = "complete_task"
               THEN _handle_complete_task(db, at, user_id, parsed.task_id)
               ELSE IF intent = "delete_task" THEN _handle_delete_task(db, user_id, parsed.task_id)
               ELSE IF intent = "update_task"
               THEN _handle_update_task(db, at, user_id, parsed.task_id, parsed.task_title)
               ELSE [db |-> db, response |-> _get_help_message]
    IN [db |-> ran.db, response |-> ran.response, tool_calls |-> <<intent>>]

_execute_intent(db, at, intent, parsed, user_id) ==
    LET ran == IF intent = "add_task" THEN _handle_add_task(db, at, user_id, parsed.task_title)
               ELSE IF intent = "list_tasks" THEN _handle_list_tasks(db, user_id)
               ELSE IF intent = "complete_task"
               THEN _handle_complete_task(db, at, user_id, parsed.task_id)
               ELSE IF intent = "delete_task" THEN _handle_delete_task(db, user_id, parsed.task_id)
               ELSE IF intent = "update_task"
               THEN _handle_update_task(db, at, user_id, parsed.task_id, parsed.task_title)
               ELSE [db |-> db, response |-> _get_help_message]
    IN [db |-> ran.db, response |-> ran.response,
        tool_calls |-> IF intent \in {"add_task", "list_tasks", "complete_task",
                                      "delete_task", "update_task"}
                       THEN <<intent>> ELSE <<>>]

(***************************************************************************)
(* The external text-generation service as the agent sees it: no model     *)
(* configured, a call that raises, or a call that returns a text.          *)
(***************************************************************************)

Unconfigured == [kind |-> "unconfigured"]

CallRaises == [kind |-> "raises"]

CallReturns(text) == [kind |-> "returns", text |-> text]

\* generate_content never returns: the awaited executor future is never resolved
CallHangs == [kind |-> "hangs"]

\* _get_gemini_intent without the except clause's fallback: a failed call yields an empty text
_get_gemini_intent_NoExceptFallback(message, gemini) ==
    IF gemini.kind = "unconfigured" THEN _fallback_intent(message)
    ELSE IF gemini.kind = "returns" THEN Returned(gemini.text)
    ELSE Returned("")

_get_gemini_intent(message, gemini) ==
    IF gemini.kind = "unconfigured" THEN _fallback_intent(message)
    ELSE IF gemini.kind = "returns" THEN Returned(gemini.text)
    ELSE _fallback_intent(message)

\* str(e) of the IndexError raised by a list index
ExcText(exc) == IF exc = "IndexError" THEN "list index out of range" ELSE exc

\* the first two statements of process_message's try block: the model's text, or the
\* fallback's, parsed into a command; an exception leaves the block
ParseMessage(message, gemini) ==
    LET gemini_response == _get_gemini_intent(message, gemini) IN
    IF gemini_response.ok
    THEN Returned(_extract_intent_and_params(gemini_response.val))
    ELSE gemini_response

\* the rest of process_message: execute the command, or answer from the except clause
AnswerParsed(db, at, user_id, parsed) ==
    IF ~parsed.ok
    THEN [db |-> db, parsed |-> None,
          response |-> Reply("I'm sorry, I encountered an error: " \o ExcText(parsed.exc)),
          tool_calls |-> <<>>]
    ELSE LET ran == _execute_intent(db, at, parsed.val.intent, parsed.val, user_id)
         IN [db |-> ran.db, parsed |-> Some(parsed.val), response |-> ran.response,
             tool_calls |-> ran.tool_calls]

process_message(db, at, user_id, message, gemini) ==
    AnswerParsed(db, at, user_id, ParseMessage(message, gemini))

(***************************************************************************)
(* REST surface (src/src/api/tasks.py) and the complete_task tool of       *)
(* src/mcp_server.py.  A response is [status, body] or [status, detail].   *)
(***************************************************************************)

Http200(body) == [status |-> 200, body |-> body]

Http404(task_id) ==
    [status |-> 404,
     detail |-> "Task " \o PyStr(task_id) \o " not found or does not belong to user"]

list_tasks(db, user_id, status) ==
    [db |-> db, res |-> Http200(get_tasks(db, user_id, status))]

add_task(db, at, user_id, task_data) ==
    LET created == create_task(db, at, user_id, task_data)
    IN [db |-> created.db, res |-> [status |-> 201, body |-> created.res]]

modify_task(db, at, user_id, task_id, task_data) ==
    LET updated == update_task(db, at, user_id, task_id, task_data)
    IN [db |-> updated.db,
        res |-> IF IsNone(updated.res) THEN Http404(task_id) ELSE Http200(updated.res[1])]

remove_task(db, user_id, task_id) ==
    LET deleted == delete_task(db, user_id, task_id)
    IN [db |-> deleted.db,
        res |-> IF ~deleted.res THEN Http404(task_id)
                ELSE Http200([status |-> "deleted", task_id |-> task_id])]

\* complete_task(session, user_id, task_id) is called without its `completed`
\* argument: the call raises TypeError before any query runs
mark_complete(db, user_id, task_id) ==
    [db |-> db, res |-> [status |-> 500, detail |-> "TypeError"]]

mcp_complete_task(db, at, user_id, task_id, completed) ==
    LET done == complete_task(db, at, user_id, task_id, completed)
    IN [db |-> done.db,
        res |-> IF IsNone(done.res) THEN [error |-> "Task not found"]
                ELSE [task_id |-> done.res[1].id,
                      status |-> IF done.res[1].completed THEN "completed" ELSE "pending",
                      title |-> done.res[1].title]]

(***************************************************************************)
(* Conversation log (src/src/services/crud.py) and the chat route          *)
(* (src/src/api/chat.py).  log = [conversations, messages], two tables     *)
(* whose rows are never deleted, so a row's id is its position.            *)
(***************************************************************************)

Conversation(id, user_id, at) ==
    [id |-> id, user_id |-> user_id, created_at |-> at, updated_at |-> at]

\* Message that files every message under the first conversation
Message_InFirstConversation(id, message_data, at) ==
    [id |-> id, user_id |-> message_data.user_id, conversation_id |-> 1,
     role |-> message_data.role, content |-> message_data.content, created_at |-> at]

Message(id, message_data, at) ==
    [id |-> id, user_id |-> message_data.user_id,
     conversation_id |-> message_data.conversation_id, role |-> message_data.role,
     content |-> message_data.content, created_at |-> at]

\* MessageCreate that records every message with the role of the assistant
MessageCreate_AlwaysAssistant(user_id, conversation_id, role, content) ==
    [user_id |-> user_id, conversation_id |-> conversation_id, role |-> "assistant",
     content |-> content]

MessageCreate(user_id, conversation_id, role, content) ==
    [user_id |-> user_id, conversation_id |-> conversation_id, role |-> role,
     content |-> content]

create_conversation(log, at, user_id) ==
    LET conversation == Conversation(Len(log.conversations) + 1, user_id, at)
    IN [log |-> [log EXCEPT !.conversations = Append(@, conversation)],
        res |-> conversation]

get_conversation(log, conversation_id) ==
    IF conversation_id \in 1..Len(log.conversations)
    THEN Some(log.conversations[conversation_id])
    ELSE None

\* create_message that overwrites the last stored message instead of adding a row
create_message_OverwritesLast(log, at, message_data) ==
    LET n == IF log.messages = <<>> THEN 1 ELSE Len(log.messages)
        message == Message(n, message_data, at)
    IN [log |-> [log EXCEPT !.messages = SubSeq(@, 1, n - 1) \o <<message>>],
        res |-> message]

create_message(log, at, message_data) ==
    LET message == Message(Len(log.messages) + 1, message_data, at)
    IN [log |-> [log EXCEPT !.messages = Append(@, message)], res |-> message]

\* int(s): the value of a string of digits, ValueError for any other string
IntOf(s) ==
    IF s # "" /\ TakeDigits(s) = s THEN Returned(PyInt(s))
    ELSE Raised("invalid literal for int() with base 10: '" \o s \o "'")

ConversationNotFound == "404: Conversation not found or does not belong to user"

\* chat_endpoint that starts a new conversation whatever conversation_id it is given
ResolveConversation_AlwaysCreates(log, at, user_id, conversation_id) ==
    LET created == create_conversation(log, at, user_id)
    IN [log |-> created.log, res |-> Returned(PyStr(created.res.id))]

\* chat_endpoint up to the first create_message: the conversation the request
\* continues or starts, or the exception raised inside the try block
ResolveConversation(log, at, user_id, conversation_id) ==
    IF IsNone(conversation_id) \/ conversation_id[1] = ""
    THEN LET created == create_conversation(log, at, user_id)
         IN [log |-> created.log, res |-> Returned(PyStr(created.res.id))]
    ELSE LET id == IntOf(conversation_id[1]) IN
         IF ~id.ok THEN [log |-> log, res |-> id]
         ELSE LET conv == get_conversation(log, id.val) IN
              IF IsNone(conv) \/ conv[1].user_id # user_id
              THEN [log |-> log, res |-> Raised(ConversationNotFound)]
              ELSE [log |-> log, res |-> Returned(conversation_id[1])]

\* the except clause of chat_endpoint: every exception, the 404 included, leaves as 500
ChatError(exc) == [status |-> 500, detail |-> "Error processing chat request: " \o exc]

ChatResponse(conversation_id, response, tool_calls) ==
    [conversation_id |-> conversation_id, response |-> response, tool_calls |-> tool_calls]

(***************************************************************************)
(* Bounds and inputs                                                       *)
(***************************************************************************)

\* number of task ids the sequence hands out, and the ids requests name
MaxTasks == 2

\* number of mutating operations (clock readings) in a behaviour
MaxTime == 3

Users == {"alice", "bob"}

TaskIds == 1..MaxTasks

Statuses == {"all", "pending", "completed", "archived"}

CreateInputs == {TaskCreate("jog", None, c) : c \in BOOLEAN}

UpdateInputs ==
    {TaskUpdate(Some("jog"), None, None), TaskUpdate(None, None, Some(TRUE)),
     TaskUpdate(None, None, Some(FALSE))}

ChatInput(message, gemini) == [message |-> message, gemini |-> gemini]

\* messages handled by the keyword cascade
FallbackMessages ==
    {"add a task to walk", "show me my tasks", "hello", "complete it",
     "Update task 1 TO walk"}
    \cup {"mark task " \o PyStr(i) \o " as complete" : i \in 1..2}
    \cup {"delete task " \o PyStr(i) : i \in 1..2}
    \cup {"update task " \o PyStr(i) \o " to walk" : i \in 1..2}

\* texts the service returns
GeminiTexts ==
    {"INTENT: ADD\nTITLE: \"\"", "INTENT: UPDATE\nTASK_ID: 1\nTITLE: to",
     "INTENT: UPDATE\nTASK_ID: 2", "INTENT: DELETE", "I am not sure what you mean",
     "INTENT: COMPLETE\nTASK_ID: 2\nCOMPLETED: true"}

ChatInputs ==
    {ChatInput(m, Unconfigured) : m \in FallbackMessages}
    \cup {ChatInput(m, CallRaises) : m \in {"delete task 1", "Update task 1 TO walk"}}
    \cup {ChatInput("do it", CallReturns(t)) : t \in GeminiTexts}

\* chat requests accepted in a behaviour of the chat route (two messages each)
MaxChats == 2

\* conversation_id of a ChatRequest
ConversationIdInputs == {None, Some("1"), Some("2"), Some("x")}

ChatEndpointInputs ==
    {ChatInput(m, Unconfigured) : m \in {"hello", "mark task 1 as complete", "delete task 1"}}
    \cup {ChatInput("Update task 1 TO walk", CallRaises), ChatInput("hello", CallHangs)}

\* ParseMessage of every chat input (the parse does not read the database)
ParsedInputs == [inp \in ChatInputs |-> ParseMessage(inp.message, inp.gemini)]

(***************************************************************************)
(* State machine: one request is handled at a time.  `call` is the request *)
(* being answered: its inputs, the database before it ran and its result.  *)
(***************************************************************************)

VARIABLES tasks, next_id, now, call, conversations, messages, handlers

vars == <<tasks, next_id, now, call, conversations, messages, handlers>>

Db == [tasks |-> tasks, next_id |-> next_id]

Idle == [op |-> "idle"]

\* empty tables, no handler running
EmptyStore ==
    /\ tasks = <<>>
    /\ next_id = 1
    /\ now = 0
    /\ conversations = <<>>
    /\ messages = <<>>
    /\ handlers = <<>>

Init == EmptyStore /\ call = Idle

\* the request ran at clock reading `at` and left the database out.db
Ran(out, at, rec) ==
    /\ tasks' = out.db.tasks
    /\ next_id' = out.db.next_id
    /\ now' = IF out.db = Db THEN now ELSE at
    /\ call' = rec
    /\ UNCHANGED <<conversations, messages, handlers>>

CanMutate == now < MaxTime

ListTasks(u, st) ==
    /\ call = Idle
    /\ LET out == list_tasks(Db, u, st) IN
       Ran(out, now, [op |-> "list_tasks", user |-> u, status |-> st, pre |-> Db,
                      res |-> out.res])

AddTask(u, data) ==
    /\ call = Idle /\ CanMutate /\ next_id <= MaxTasks
    /\ LET out == add_task(Db, now + 1, u, data) IN
       Ran(out, now + 1, [op |-> "add_task", user |-> u, data |-> data, pre |-> Db,
                          res |-> out.res])

ModifyTask(u, id, data) ==
    /\ call = Idle
    /\ LET out == modify_task(Db, now + 1, u, id, data) IN
       /\ out.db # Db => CanMutate
       /\ Ran(out, now + 1, [op |-> "modify_task", user |-> u, id |-> id, data |-> data,
                          pre |-> Db, res |-> out.res])

RemoveTask(u, id) ==
    /\ call = Idle
    /\ LET out == remove_task(Db, u, id) IN
       /\ out.db # Db => CanMutate
       /\ Ran(out, now + 1, [op |-> "remove_task", user |-> u, id |-> id, pre |-> Db,
                          res |-> out.res])

MarkComplete(u, id) ==
    /\ call = Idle
    /\ LET out == mark_complete(Db, u, id) IN
       Ran(out, now, [op |-> "mark_complete", user |-> u, id |-> id, pre |-> Db,
                      res |-> out.res])

McpCompleteTask(u, id, c) ==
    /\ call = Idle
    /\ LET out == mcp_complete_task(Db, now + 1, u, id, c) IN
       /\ out.db # Db => CanMutate
       /\ Ran(out, now + 1, [op |-> "mcp_complete_task", user |-> u, id |-> id,
                          completed |-> c, pre |-> Db, res |-> out.res])

Chat(u, inp) ==
    /\ call = Idle
    /\ LET out == AnswerParsed(Db, now + 1, u, ParsedInputs[inp]) IN
       /\ out.db # Db => CanMutate /\ out.db.next_id <= MaxTasks + 1
       /\ Ran(out, now + 1, [op |-> "chat", user |-> u, message |-> inp.message,
                             gemini |-> inp.gemini, parsed |-> out.parsed, pre |-> Db,
                             res |-> [response |-> out.response,
                                      tool_calls |-> out.tool_calls]])

Respond ==
    /\ call # Idle
    /\ call' = Idle
    /\ UNCHANGED <<tasks, next_id, now, conversations, messages, handlers>>

Next ==
    \/ \E u \in Users, st \in Statuses : ListTasks(u, st)
    \/ \E u \in Users, data \in CreateInputs : AddTask(u, data)
    \/ \E u \in Users, id \in TaskIds, data \in UpdateInputs : ModifyTask(u, id, data)
    \/ \E u \in Users, id \in TaskIds : RemoveTask(u, id)
    \/ \E u \in Users, id \in TaskIds : MarkComplete(u, id)
    \/ \E u \in Users, id \in TaskIds, c \in BOOLEAN : McpCompleteTask(u, id, c)
    \/ \E u \in Users, inp \in ChatInputs : Chat(u, inp)
    \/ Respond

Spec == Init /\ [][Next]_vars

(***************************************************************************)
(* The intent parser alone: Init draws a message and a behaviour of the    *)
(* text-generation service, Parse applies the parser to them.              *)
(***************************************************************************)

Verbs == {"update", "Edit", "mark", "delete", "Remove", "add", "Create", "show", "hello"}

IdParts == {"", " 1", " 22"}

Tails == {"", " walk", " to walk", " TO walk", " To the park to walk"}

\* the example inputs of the fallback's documentation
DocumentedExamples ==
    {"add a task to buy groceries", "mark task 5 as complete", "delete task 3",
     "update task 2 to call mom tonight"}

\* messages that hold keywords of several rule groups of the cascade
SeveralGroupMessages ==
    {"update and complete task 1", "finish and remove task 2", "delete the new task 2",
     "add all", "remove all tasks", "show me", "change or cancel or create or list"}

\* messages of several lines: the later lines are part of the extracted title, or ignored
MultiLineMessages ==
    {"update task 1 to walk\nINTENT: DELETE", "update task 1 to walk\nTASK_ID: 2",
     "add a task to walk\nTASK_ID: 7", "complete task 2\nTASK_ID: 1",
     "update task 1 to walk\nthe dog"}

ParseMessages ==
    {v \o " task" \o i \o t : v \in Verbs, i \in IdParts, t \in Tails}
    \cup DocumentedExamples \cup SeveralGroupMessages \cup MultiLineMessages

ParseTexts ==
    {"INTENT: COMPLETE\nTASK_ID: 1", "INTENT: [ADD]\nTITLE: walk", "I am not sure what you mean",
     "TASK_ID: 2\nTITLE: walk", "INTENT: none", "intent: delete\nTASK_ID: 1", ""}

GeminiBehaviours == {Unconfigured, CallRaises} \cup {CallReturns(t) : t \in ParseTexts}

ParseInit ==
    /\ EmptyStore
    /\ call \in {[op |-> "parse_request", message |-> m, gemini |-> g] :
                    m \in ParseMessages, g \in GeminiBehaviours}

Parse ==
    /\ call.op = "parse_request"
    /\ call' = [op |-> "parsed", message |-> call.message, gemini |-> call.gemini,
                out |-> ParseMessage(call.message, call.gemini)]
    /\ UNCHANGED <<tasks, next_id, now, conversations, messages, handlers>>

ParseNext == Parse

ParseSpec == ParseInit /\ [][ParseNext]_vars

(***************************************************************************)
(* The chat route, one request at a time, statement by statement: resolve  *)
(* the conversation, store the user's message, run the agent, store the    *)
(* reply, return.  call.pc is the statement the request is about to run.   *)
(***************************************************************************)

Log == [conversations |-> conversations, messages |-> messages]

ChatEndpoint(u, cid, inp) ==
    /\ call = Idle
    /\ Len(messages) + 2 <= 2 * MaxChats
    /\ inp \in ChatInputs =>
          AnswerParsed(Db, now + 1, u, ParsedInputs[inp]).db.next_id <= MaxTasks + 1
    /\ LET out == ResolveConversation(Log, now + 1, u, cid) IN
       /\ conversations' = out.log.conversations
       /\ now' = IF out.log = Log THEN now ELSE now + 1
       /\ call' = [op |-> "chat_endpoint", user |-> u, conversation_id |-> cid,
                   message |-> inp.message, gemini |-> inp.gemini,
                   pre |-> Db, pre_log |-> Log,
                   pc |-> IF out.res.ok THEN "store_user" ELSE "done",
                   resolved |-> IF out.res.ok THEN out.res.val ELSE "",
                   response |-> None,
                   res |-> IF out.res.ok THEN None ELSE Some(ChatError(out.res.exc))]
    /\ UNCHANGED <<tasks, next_id, messages, handlers>>

StoreUserMessage ==
    /\ call.op = "chat_endpoint" /\ call.pc = "store_user"
    /\ LET out == create_message(Log, now + 1,
                      MessageCreate(call.user, PyInt(call.resolved), "user",
                                    Reply(call.message)))
       IN /\ messages' = out.log.messages
          /\ now' = now + 1
          /\ call' = [call EXCEPT !.pc = "process"]
    /\ UNCHANGED <<tasks, next_id, conversations, handlers>>

\* todo_agent.process_message returns once the model's call has returned or raised
ProcessMessage ==
    /\ call.op = "chat_endpoint" /\ call.pc = "process"
    /\ call.gemini.kind # "hangs"
    /\ LET out == AnswerParsed(Db, now + 1, call.user,
                               ParsedInputs[ChatInput(call.message, call.gemini)])
       IN /\ tasks' = out.db.tasks
          /\ next_id' = out.db.next_id
          /\ now' = IF out.db = Db THEN now ELSE now + 1
          /\ call' = [call EXCEPT !.pc = "store_assistant",
                                  !.response = Some(ChatResponse("", out.response,
                                                                 out.tool_calls))]
    /\ UNCHANGED <<conversations, messages, handlers>>

StoreAssistantMessage ==
    /\ call.op = "chat_endpoint" /\ call.pc = "store_assistant"
    /\ LET out == create_message(Log, now + 1,
                      MessageCreate(call.user, PyInt(call.resolved), "assistant",
                                    call.response[1].response))
       IN /\ messages' = out.log.messages
          /\ now' = now + 1
          /\ call' = [call EXCEPT !.pc = "done",
                                  !.res = Some(Http200(ChatResponse(call.resolved,
                                                          call.response[1].response,
                                                          call.response[1].tool_calls)))]
    /\ UNCHANGED <<tasks, next_id, conversations, handlers>>

\* the response is sent once the route has returned or raised
ChatRespond ==
    /\ call.op = "chat_endpoint" => call.pc = "done"
    /\ Respond

ChatNext ==
    \/ \E u \in Users, cid \in ConversationIdInputs, inp \in ChatEndpointInputs :
          ChatEndpoint(u, cid, inp)
    \/ StoreUserMessage
    \/ ProcessMessage
    \/ StoreAssistantMessage
    \/ \E u \in Users, data \in CreateInputs : AddTask(u, data)
    \/ \E u \in Users, id \in TaskIds : RemoveTask(u, id)
    \/ ChatRespond

ChatSpec == Init /\ [][ChatNext]_vars

\* the event loop resumes every coroutine whose awaited call has completed
ChatLiveSpec ==
    /\ ChatSpec
    /\ WF_vars(StoreUserMessage)
    /\ WF_vars(ProcessMessage)
    /\ WF_vars(StoreAssistantMessage)
    /\ WF_vars(ChatRespond)

(***************************************************************************)
(* The command handlers of the agent run by concurrent requests, await by  *)
(* await.  Each request has its own session on the shared database; a      *)
(* handler that names a task first looks it up (get_task) and then, in a   *)
(* second statement, changes it (update_task, delete_task).  A store call  *)
(* may raise instead of answering.  handlers[p] is the handler of request  *)
(* p: its command, the row its lookup found, its reply once it returned,   *)
(* and what went wrong in it.                                              *)
(***************************************************************************)

Procs == {1, 2}

RaceUsers == {"alice"}

\* commands as _extract_intent_and_params hands them to _execute_intent
Commands ==
    {[intent |-> "add_task", task_id |-> 0, task_title |-> "walk"],
     [intent |-> "list_tasks", task_id |-> 0, task_title |-> ""],
     [intent |-> "complete_task", task_id |-> 1, task_title |-> ""],
     [intent |-> "delete_task", task_id |-> 1, task_title |-> ""],
     [intent |-> "update_task", task_id |-> 1, task_title |-> "jog"],
     [intent |-> "unknown", task_id |-> 0, task_title |-> ""]}

\* str(e) of the exception a failing store call raises
StoreError == "connection is closed"

HandlerIdle == [pc |-> "idle"]

\* what the except clause of the intent's handler says it could not do
CouldNot(intent) ==
    CASE intent = "add_task" -> "add the task"
      [] intent = "list_tasks" -> "retrieve your tasks"
      [] intent = "complete_task" -> "mark the task as complete"
      [] intent = "delete_task" -> "delete the task"
      [] OTHER -> "update the task"

\* the except clause of a handler that lets the exception through
Apology_Reraises(intent, exc) == Raised(exc)

\* the except clause of a handler: the exception becomes the apology text
Apology(intent, exc) ==
    Returned(Reply("Sorry, I couldn't " \o CouldNot(intent) \o ". Error: " \o exc))

\* the handler has returned (or raised) with this outcome after this failure
Done(h, outcome, failure) ==
    [h EXCEPT !.pc = "done", !.outcome = Some(outcome), !.failure = failure]

\* _execute_intent picks the handler; an unknown intent is answered at once
NewHandler(user_id, cmd) ==
    LET h == [pc |-> "lookup", user |-> user_id, intent |-> cmd.intent,
              task_id |-> cmd.task_id, task_title |-> cmd.task_title,
              found |-> None, outcome |-> None, failure |-> "none"]
    IN IF cmd.intent = "unknown" THEN Done(h, Returned(_get_help_message), "none")
       ELSE IF cmd.intent = "add_task" THEN [h EXCEPT !.pc = "mutate"]
       ELSE h

\* a handler up to its first store call: get_tasks, or get_task and the tests on its result
HandlerLookup(db, h, fails) ==
    IF fails THEN Done(h, Apology(h.intent, StoreError), "store_error")
    ELSE IF h.intent = "list_tasks"
    THEN Done(h, Returned(_handle_list_tasks(db, h.user).response), "none")
    ELSE LET task == get_task(db, h.user, h.task_id) IN
         IF IsNone(task) THEN Done(h, Returned(NotFoundReply(h.task_id)), "none")
         ELSE IF h.intent = "complete_task" /\ task[1].completed
         THEN Done(h, Returned(Reply("Task " \o PyStr(h.task_id) \o " '" \o task[1].title
                                     \o "' is already completed!")), "none")
         ELSE [h EXCEPT !.pc = "mutate", !.found = task]

\* the rest of a handler: its create_task, update_task or delete_task and its reply
HandlerMutate(db, at, h, fails) ==
    IF fails THEN [db |-> db, h |-> Done(h, Apology(h.intent, StoreError), "store_error")]
    ELSE IF h.intent = "add_task"
    THEN LET ran == _handle_add_task(db, at, h.user, h.task_title)
         IN [db |-> ran.db, h |-> Done(h, Returned(ran.response), "none")]
    ELSE IF h.intent = "delete_task"
    THEN LET deleted == delete_task(db, h.user, h.task_id) IN
         [db |-> deleted.db,
          h |-> IF deleted.res
                THEN Done(h, Returned(Reply("Task " \o PyStr(h.task_id) \o " '"
                                            \o h.found[1].title \o "' has been deleted.")),
                          "none")
                ELSE Done(h, Returned(Reply("Failed to delete task " \o PyStr(h.task_id)
                                            \o ".")), "task_gone")]
    ELSE LET task_update ==
                IF h.intent = "complete_task" THEN TaskUpdate(None, None, Some(TRUE))
                ELSE TaskUpdate(Some(_clean_task_title(h.task_title, h.task_id)), None, None)
             updated == update_task(db, at, h.user, h.task_id, task_update)
         IN [db |-> updated.db,
             h |-> IF IsNone(updated.res)
                   THEN Done(h, Apology(h.intent, NoneTypeTitle), "task_gone")
                   ELSE IF h.intent = "complete_task"
                   THEN Done(h, Returned(Reply("Task " \o PyStr(h.task_id)
                                   \o " marked as complete!\n\n'" \o updated.res[1].title
                                   \o "' is now done. Great job! ")), "none")
                   ELSE Done(h, Returned(Reply("Task " \o PyStr(h.task_id)
                                   \o " updated!\n\nOld: '" \o h.found[1].title
                                   \o "'\nNew: '" \o updated.res[1].title \o "'")), "none")]

RaceInit ==
    /\ tasks = <<>>
    /\ next_id = 1
    /\ now = 0
    /\ call = Idle
    /\ conversations = <<>>
    /\ messages = <<>>
    /\ handlers = [p \in Procs |-> HandlerIdle]

StartHandler(p, u, cmd) ==
    /\ handlers[p].pc = "idle"
    /\ handlers' = [handlers EXCEPT ![p] = NewHandler(u, cmd)]
    /\ UNCHANGED <<tasks, next_id, now, call, conversations, messages>>

Lookup(p, fails) ==
    /\ handlers[p].pc = "lookup"
    /\ handlers' = [handlers EXCEPT ![p] = HandlerLookup(Db, handlers[p], fails)]
    /\ UNCHANGED <<tasks, next_id, now, call, conversations, messages>>

Mutate(p, fails) ==
    /\ handlers[p].pc = "mutate"
    /\ LET out == HandlerMutate(Db, now + 1, handlers[p], fails) IN
       /\ out.db # Db => CanMutate /\ out.db.next_id <= MaxTasks + 1
       /\ tasks' = out.db.tasks
       /\ next_id' = out.db.next_id
       /\ now' = IF out.db = Db THEN now ELSE now + 1
       /\ handlers' = [handlers EXCEPT ![p] = out.h]
    /\ UNCHANGED <<call, conversations, messages>>

\* the reply leaves with the response of the request
Finish(p) ==
    /\ handlers[p].pc = "done"
    /\ handlers' = [handlers EXCEPT ![p] = HandlerIdle]
    /\ UNCHANGED <<tasks, next_id, now, call, conversations, messages>>

RaceNext ==
    \/ \E p \in Procs, u \in RaceUsers, cmd \in Commands : StartHandler(p, u, cmd)
    \/ \E p \in Procs, fails \in BOOLEAN : Lookup(p, fails)
    \/ \E p \in Procs, fails \in BOOLEAN : Mutate(p, fails)
    \/ \E p \in Procs : Finish(p)

RaceSpec == RaceInit /\ [][RaceNext]_vars

(***************************************************************************)
(* Properties                                                              *)
(***************************************************************************)

\* the database without the row of task id
Without(db, id) == [db EXCEPT !.tasks = [i \in DOMAIN db.tasks \ {id} |-> db.tasks[i]]]

Rows(db) == {db.tasks[i] : i \in DOMAIN db.tasks}

\* the request being answered is a chat message parsed to the given intent
ChatIntent(intent) ==
    call.op = "chat" /\ ~IsNone(call.parsed) /\ call.parsed[1].intent = intent

\* ... and it names a task id
ChatNamesTask == ~NoTaskId(call.parsed[1].task_id)

ChatTaskId == call.parsed[1].task_id[1]

\* C1: every stored task has completed_at non-null if and only if its completed flag
\* is true, after any sequence of REST, tool and chat operations.
C1_CompletedAtIffCompleted ==
    \A id \in DOMAIN tasks : ~IsNone(tasks[id].completed_at) <=> tasks[id].completed

\* a store request (update, delete, setCompleted) by a user on a stored task of another owner
C2_ForeignTarget ==
    /\ call.op \in {"modify_task", "remove_task", "mcp_complete_task"}
    /\ call.id \in DOMAIN call.pre.tasks
    /\ call.pre.tasks[call.id].user_id # call.user

\* the same request run against the database db
C2_SameRequestOn(db) ==
    IF call.op = "modify_task" THEN modify_task(db, now + 1, call.user, call.id, call.data)
    ELSE IF call.op = "remove_task" THEN remove_task(db, call.user, call.id)
    ELSE mcp_complete_task(db, now + 1, call.user, call.id, call.completed)

C2_NotFound ==
    IF call.op = "mcp_complete_task" THEN [error |-> "Task not found"] ELSE Http404(call.id)

\* C2: get, update, delete and setCompleted by a user on a task of another owner return
\* the not-found result they return when the id does not exist, and change no stored task.
C2_CrossOwnerIsNotFound ==
    /\ C2_ForeignTarget =>
          /\ call.res = C2_NotFound
          /\ call.res = C2_SameRequestOn(Without(call.pre, call.id)).res
          /\ Db = call.pre
    /\ \A u \in Users, id \in DOMAIN tasks :
          tasks[id].user_id # u =>
             /\ get_task(Db, u, id) = None
             /\ get_task(Db, u, id) = get_task(Without(Db, id), u, id)

C2_Witness ==
    /\ C2_ForeignTarget
    /\ call.op = "modify_task"
    /\ call.res.status = 404
    /\ tasks[call.id].user_id # call.user

\* a chat CompleteTask, DeleteTask or UpdateTask naming a stored task of another owner
C3_ForeignChat ==
    /\ ChatIntent("complete_task") \/ ChatIntent("delete_task") \/ ChatIntent("update_task")
    /\ ChatNamesTask
    /\ ChatTaskId \in DOMAIN call.pre.tasks
    /\ call.pre.tasks[ChatTaskId].user_id # call.user

\* C3: the reply text and actionsTaken of a chat CompleteTask, DeleteTask or UpdateTask on
\* another owner's task equal those of the run in which that task does not exist.
C3_ReplyHidesOtherOwnersTask ==
    C3_ForeignChat =>
       LET other == AnswerParsed(Without(call.pre, ChatTaskId), now + 1, call.user,
                                 Returned(call.parsed[1]))
       IN /\ call.res.response = other.response
          /\ call.res.tool_calls = other.tool_calls
          /\ Db = call.pre

C3_Witness ==
    /\ C3_ForeignChat
    /\ ChatIntent("delete_task")
    /\ call.res.response = NotFoundReply(ChatTaskId)

AlreadyCompletedReply(task) ==
    Reply("Task " \o PyStr(task.id) \o " '" \o task.title \o "' is already completed!")

\* a chat CompleteTask by the owner of a stored task
C4_OwnerCompletes ==
    /\ ChatIntent("complete_task")
    /\ ChatNamesTask
    /\ ChatTaskId \in DOMAIN call.pre.tasks
    /\ call.pre.tasks[ChatTaskId].user_id = call.user

\* C4: a chat CompleteTask that marks a task complete leaves it completed, and a chat
\* CompleteTask by the owner on a completed task (so the second of two in sequence)
\* returns the 'already completed' message and leaves the database, updated_at and
\* completed_at included, as it was.
C4_SecondCompleteIsNoOp ==
    C4_OwnerCompletes =>
       /\ ~call.pre.tasks[ChatTaskId].completed =>
             /\ ChatTaskId \in DOMAIN tasks
             /\ tasks[ChatTaskId].completed
       /\ call.pre.tasks[ChatTaskId].completed =>
             /\ call.res.response = AlreadyCompletedReply(call.pre.tasks[ChatTaskId])
             /\ Db = call.pre

C4_Witness ==
    /\ C4_OwnerCompletes
    /\ call.pre.tasks[ChatTaskId].completed
    /\ call.pre.tasks[ChatTaskId].updated_at = now
    /\ call.res.response = AlreadyCompletedReply(tasks[ChatTaskId])

\* a chat AddTask with a non-empty title
C5_AddWithTitle == ChatIntent("add_task") /\ call.parsed[1].task_title # ""

C5_State ==
    /\ C5_AddWithTitle =>
          LET id == call.pre.next_id IN
          /\ id \in DOMAIN tasks /\ id \notin DOMAIN call.pre.tasks
          /\ tasks[id].user_id = call.user
          /\ tasks[id].completed = FALSE
          /\ tasks[id].completed_at = None
          /\ tasks[id] \in get_tasks(Db, call.user, "pending")
          /\ \A i \in DOMAIN call.pre.tasks : i \in DOMAIN tasks /\ tasks[i] = call.pre.tasks[i]
    /\ call.op = "list_tasks" /\ call.status = "pending" =>
          \A r \in Rows(call.pre) :
             r.user_id = call.user /\ ~r.completed => r \in call.res.body
    /\ ChatIntent("list_tasks") =>
          \A r \in Rows(call.pre) :
             r.user_id = call.user /\ ~r.completed =>
                /\ call.res.response.text = "YOUR TASKS"
                /\ r \in call.res.response.pending

C5_Step == \A id \in DOMAIN tasks \cap DOMAIN tasks' : tasks'[id].user_id = tasks[id].user_id

\* C5: a chat AddTask with a non-empty title stores a new task of that owner with
\* completed = false and completed_at absent; a stored task never changes owner, and every
\* list(owner, pending) returns every stored task of the owner that is not completed.
C5_AddedTaskIsListedPending == [](C5_State) /\ [][C5_Step]_vars

C5_Witness ==
    /\ call.op = "list_tasks" /\ call.status = "pending"
    /\ \E r \in call.res.body :
          r.title = "walk" /\ r.description = Some("") /\ r.updated_at > r.created_at

\* a title update by the owner of a stored task, through REST or chat
C6_RestRetitles ==
    /\ call.op = "modify_task" /\ ~IsNone(call.data.title)
    /\ call.id \in DOMAIN call.pre.tasks
    /\ call.pre.tasks[call.id].user_id = call.user

C6_ChatRetitles ==
    /\ ChatIntent("update_task") /\ ChatNamesTask /\ call.parsed[1].task_title # ""
    /\ ChatTaskId \in DOMAIN call.pre.tasks
    /\ call.pre.tasks[ChatTaskId].user_id = call.user

C6_Retitled(id, title) ==
    /\ id \in DOMAIN tasks
    /\ tasks[id].title = title
    /\ {r \in get_tasks(Db, call.user, "all") : r.id = id} = {tasks[id]}
    /\ \A r \in get_tasks(Db, call.user, "all") : r.id = id => r.title = title
    /\ tasks[id].updated_at > call.pre.tasks[id].updated_at

\* C6: after the owner updates the title of a task, a listing for the owner shows the
\* task once, with the new title, and the task's updated_at is strictly greater than before.
C6_UpdateShowsNewTitle ==
    /\ C6_RestRetitles => C6_Retitled(call.id, call.data.title[1])
    /\ C6_ChatRetitles =>
          C6_Retitled(ChatTaskId, _clean_task_title(call.parsed[1].task_title, ChatTaskId))

C6_Witness ==
    /\ C6_RestRetitles
    /\ call.pre.tasks[call.id].title = "walk"
    /\ tasks[call.id].title = "jog"
    /\ tasks[call.id].updated_at > call.pre.tasks[call.id].updated_at

\* the ids the sequence has handed out whose rows are gone
DeletedIds(db) == (1..(db.next_id - 1)) \ DOMAIN db.tasks

C7_Deleted ==
    \/ call.op = "remove_task" /\ call.res.status = 200
    \/ /\ ChatIntent("delete_task") /\ ChatNamesTask
       /\ ChatTaskId \in DOMAIN call.pre.tasks
       /\ call.pre.tasks[ChatTaskId].user_id = call.user

C7_DeletedId == IF call.op = "remove_task" THEN call.id ELSE ChatTaskId

C7_State ==
    /\ C7_Deleted =>
          /\ C7_DeletedId \in DeletedIds(Db)
          /\ \A u \in Users, st \in Statuses :
                \A r \in get_tasks(Db, u, st) : r.id # C7_DeletedId
    /\ \A u \in Users, id \in DeletedIds(Db) : get_task(Db, u, id) = None
    /\ call.op \in {"modify_task", "remove_task", "mcp_complete_task"}
       /\ call.id \in DeletedIds(call.pre) =>
          call.res = C2_NotFound /\ Db = call.pre
    /\ (ChatIntent("complete_task") \/ ChatIntent("delete_task")
        \/ (ChatIntent("update_task") /\ call.parsed[1].task_title # ""))
       /\ ChatNamesTask /\ ChatTaskId \in DeletedIds(call.pre) =>
          call.res.response = NotFoundReply(ChatTaskId) /\ Db = call.pre

C7_Step == \A id \in DeletedIds(Db) : id \notin DOMAIN tasks'

\* C7: a successful delete removes the task from every listing of every status filter;
\* a deleted id never comes back, and get, update, delete and setCompleted on it
\* return not-found.
C7_DeleteIsFinal == [](C7_State) /\ [][C7_Step]_vars

C7_Witness ==
    /\ call.op = "modify_task"
    /\ call.id \in DeletedIds(call.pre)
    /\ call.res.status = 404
    /\ tasks # <<>>

\* C8: list(owner, status) returns exactly the stored tasks of that owner whose completed
\* flag matches the filter, and never a task of another owner.
C8_ListIsOwnersMatchingTasks ==
    call.op = "list_tasks" =>
       /\ call.status = "all" =>
             call.res.body = {r \in Rows(call.pre) : r.user_id = call.user}
       /\ call.status = "pending" =>
             call.res.body = {r \in Rows(call.pre) : r.user_id = call.user /\ ~r.completed}
       /\ call.status = "completed" =>
             call.res.body = {r \in Rows(call.pre) : r.user_id = call.user /\ r.completed}
       /\ \A r \in call.res.body : r.user_id = call.user

C8_Witness ==
    /\ call.op = "list_tasks" /\ call.status = "completed"
    /\ call.res.body # {}
    /\ \E r \in Rows(Db) : r.user_id # call.user /\ r.completed

CommandKinds ==
    {"add_task", "list_tasks", "complete_task", "delete_task", "update_task", "unknown"}

\* the text has a line that starts with INTENT: and holds a keyword of the mapping
HasUsableIntentLine(text) ==
    LET lines == PySplitLines(PyStrip(text)) IN
    \E k \in 1..Len(lines) :
       /\ PyStartsWith(PyStrip(lines[k]), "INTENT:")
       /\ MapIntent(PyUpper(PyStrip(PyReplaceEmpty(PyStrip(lines[k]), "INTENT:"))), "") # ""

\* C9: for every message and every behaviour of the external model the intent parser
\* returns a command of one of the six kinds and never raises; a returned text without
\* a usable INTENT line gives Unknown.
C9_ParserNeverRaises ==
    call.op = "parsed" =>
       /\ call.out.ok
       /\ call.out.val.intent \in CommandKinds
       /\ call.gemini.kind = "returns" /\ ~HasUsableIntentLine(call.gemini.text) =>
             call.out.val.intent = "unknown"

\* what the deterministic cascade yields for the message: its command, or its exception
FallbackOutcome(message) ==
    LET text == _fallback_intent(message) IN
    IF text.ok THEN Returned(_extract_intent_and_params(text.val)) ELSE text

\* the service's call failed: it raised, or returned a text with no usable INTENT line
C10_CallFailed ==
    \/ call.gemini.kind = "raises"
    \/ call.gemini.kind = "returns" /\ ~HasUsableIntentLine(call.gemini.text)

C12_Gives(intent, title, task_id) ==
    /\ call.out.ok
    /\ call.out.val.intent = intent
    /\ call.out.val.task_title = title
    /\ call.out.val.task_id = task_id

\* C12: with the language model unavailable (unconfigured, or its call raising), the
\* parser maps 'add a task to buy groceries' to AddTask titled 'buy groceries', 'mark
\* task 5 as complete' to CompleteTask of id 5, 'delete task 3' to DeleteTask of id 3 and
\* 'update task 2 to call mom tonight' to UpdateTask of id 2 titled 'call mom tonight'.
C12_DocumentedExamplesParse ==
    call.op = "parsed" /\ call.gemini.kind \in {"unconfigured", "raises"} =>
       /\ call.message = "add a task to buy groceries" =>
             C12_Gives("add_task", "buy groceries", None)
       /\ call.message = "mark task 5 as complete" =>
             C12_Gives("complete_task", "", Some(5))
       /\ call.message = "delete task 3" => C12_Gives("delete_task", "", Some(3))
       /\ call.message = "update task 2 to call mom tonight" =>
             C12_Gives("update_task", "call mom tonight", Some(2))

C12_Witness ==
    /\ call.op = "parsed"
    /\ call.gemini.kind = "unconfigured"
    /\ call.message = "update task 2 to call mom tonight"
    /\ C12_Gives("update_task", "call mom tonight", Some(2))

\* C13: a chat message that resolves to the Unknown command (such as 'hello' with the
\* model unavailable) is answered with the fixed help message and an empty actionsTaken
\* list, and leaves the stored tasks as they were.
C13_UnknownGivesHelp ==
    ChatIntent("unknown") =>
       /\ call.res.response = _get_help_message
       /\ call.res.tool_calls = <<>>
       /\ Db = call.pre

C13_Witness ==
    /\ ChatIntent("unknown")
    /\ call.message = "hello"
    /\ call.gemini = Unconfigured
    /\ tasks # <<>>
    /\ call.res.response = _get_help_message

\* the task named by a REST request is stored and owned by the caller
RestOwnTarget ==
    call.id \in DOMAIN call.pre.tasks /\ call.pre.tasks[call.id].user_id = call.user

\* C19: PATCH /tasks/{user_id}/{task_id}/complete on a stored task owned by user_id
\* leaves that task with completed = true and returns the updated task; on an id that
\* does not exist or belongs to another owner it returns not-found.
C19_RestCompleteCompletes ==
    call.op = "mark_complete" =>
       IF RestOwnTarget
       THEN /\ call.id \in DOMAIN tasks
            /\ tasks[call.id].completed
            /\ call.res = Http200(tasks[call.id])
       ELSE call.res = Http404(call.id)

\* a REST update carrying a completed flag, on a stored task owned by the caller
C20_RestSetsCompleted ==
    call.op = "modify_task" /\ ~IsNone(call.data.completed) /\ RestOwnTarget

\* C20: update with completed = true on a task whose flag was false sets completed_at to
\* the current time, and so does the chat CompleteTask that marks a task complete; with
\* completed = true on a completed task it leaves completed_at as it was; with
\* completed = false it clears completed_at.
C20_UpdateStampsCompletedAt ==
    /\ C20_RestSetsCompleted =>
          LET before == call.pre.tasks[call.id]
              after == tasks[call.id]
          IN /\ call.data.completed[1] /\ ~before.completed => after.completed_at = Some(now)
             /\ call.data.completed[1] /\ before.completed =>
                   after.completed_at = before.completed_at
             /\ ~call.data.completed[1] => after.completed_at = None
    /\ C4_OwnerCompletes /\ ~call.pre.tasks[ChatTaskId].completed =>
          tasks[ChatTaskId].completed_at = Some(now)

\* C11: every chat request eventually returns its response, also when the model's call
\* never responds (the call is abandoned after a bounded wait and the fallback runs).
C11_EveryChatRequestReplies ==
    (call.op = "chat_endpoint") ~> (call.op = "chat_endpoint" /\ call.pc = "done")

\* the chat request names no conversation
C16_NoConversationId ==
    /\ call.op = "chat_endpoint"
    /\ IsNone(call.conversation_id) \/ call.conversation_id[1] = ""

\* the chat request names a conversation that is stored and owned by the caller
C16_OwnConversationId ==
    /\ call.op = "chat_endpoint" /\ ~C16_NoConversationId
    /\ IntOf(call.conversation_id[1]).ok
    /\ LET conv == get_conversation(call.pre_log, IntOf(call.conversation_id[1]).val)
       IN ~IsNone(conv) /\ conv[1].user_id = call.user

\* the chat request names a conversation that is not stored, or is owned by another user
C15_NoSuchConversation ==
    call.op = "chat_endpoint" /\ ~C16_NoConversationId /\ ~C16_OwnConversationId

\* C15: a chat request whose conversationId does not exist, or whose owner differs from
\* the caller, is answered with not-found (HTTP 404), stores no message, creates no
\* conversation and changes no task.
C15_UnknownConversationIsNotFound ==
    C15_NoSuchConversation =>
       /\ call.pc = "done"
       /\ call.res[1].status = 404
       /\ Log = call.pre_log
       /\ Db = call.pre

\* the chat request has returned its response
C16_Returned == call.pc = "done" /\ call.res[1].status = 200

\* C16: a chat request without conversationId creates exactly one conversation, owned by
\* the caller, and its reply carries that conversation's id; a chat request with a
\* conversationId of the caller creates no conversation and its reply carries that id.
C16_ConversationResolved ==
    /\ C16_NoConversationId =>
          LET n == Len(conversations) IN
          /\ n = Len(call.pre_log.conversations) + 1
          /\ SubSeq(conversations, 1, n - 1) = call.pre_log.conversations
          /\ conversations[n].user_id = call.user
          /\ conversations[n].id = n
          /\ call.pc = "done" =>
                C16_Returned /\ call.res[1].body.conversation_id = PyStr(conversations[n].id)
    /\ C16_OwnConversationId =>
          /\ conversations = call.pre_log.conversations
          /\ call.pc = "done" =>
                C16_Returned /\ call.res[1].body.conversation_id = call.conversation_id[1]

C16_Witness ==
    /\ C16_NoConversationId /\ C16_Returned
    /\ call.user = "bob"
    /\ call.res[1].body.conversation_id = "2"
    /\ conversations[1].user_id = "alice"
    /\ conversations[2].user_id = "bob"

C16_WitnessContinued ==
    /\ C16_OwnConversationId /\ C16_Returned
    /\ call.res[1].body.conversation_id = "1"
    /\ Len(messages) = 4

C17_Witness ==
    /\ Len(messages) = 4
    /\ messages[3].conversation_id = messages[1].conversation_id
    /\ messages[4].role = "assistant"
    /\ Len(conversations) = 1
    /\ tasks # <<>>

\* C17: the conversation log is append-only: every step leaves each stored message and
\* each stored conversation in place and unchanged.
C17_LogIsAppendOnly ==
    [][/\ Len(messages') >= Len(messages)
       /\ SubSeq(messages', 1, Len(messages)) = messages
       /\ Len(conversations') >= Len(conversations)
       /\ SubSeq(conversations', 1, Len(conversations)) = conversations]_vars

\* the apology of the intent's handler carrying the failure description
C14_ApologyReply(intent, description) ==
    Returned(Reply("Sorry, I couldn't " \o CouldNot(intent) \o ". Error: " \o description))

\* handler p has returned or raised
C14_Ended(p) == handlers[p].pc = "done"

\* in this step handler p runs its update or delete on a task that it had looked up
\* and that is no longer stored, and the store call itself does not raise
C14_TargetGone(p) ==
    /\ handlers[p].pc = "mutate"
    /\ handlers[p].intent \in {"complete_task", "update_task", "delete_task"}
    /\ handlers[p].task_id \notin DOMAIN tasks
    /\ handlers'[p].pc = "done"
    /\ handlers'[p].failure # "store_error"

\* a handler never raises, and a handler in which a store call raised returns the apology
\* carrying the exception's text
C14_StoreErrorGivesApology ==
    \A p \in Procs :
       C14_Ended(p) =>
          /\ handlers[p].outcome[1].ok
          /\ handlers[p].failure = "store_error" =>
                handlers[p].outcome[1] = C14_ApologyReply(handlers[p].intent, StoreError)

\* C14 as stated: for every command kind and every failure of the store during a handler,
\* the targeted task disappearing between the handler's lookup and its mutation
\* included, the handler returns the apology reply carrying the failure description and
\* never raises.
C14_AnyFailureGivesApology ==
    /\ [](C14_StoreErrorGivesApology)
    /\ [][\A p \in Procs :
             C14_TargetGone(p) =>
                /\ handlers'[p].outcome[1] =
                      C14_ApologyReply(handlers[p].intent, NoneTypeTitle)
                /\ tasks' = tasks]_vars

\* C14 amended: no handler raises; a handler in which a store call raised returns the
\* apology carrying the exception's text; when the targeted task has disappeared between
\* lookup and mutation, CompleteTask and UpdateTask return the apology carrying the
\* text of the attribute error on the missing row, and DeleteTask returns 'Failed to
\* delete task N.', which carries no failure description; the store is left unchanged.
C14_FailureGivesFailureReply ==
    /\ [](C14_StoreErrorGivesApology)
    /\ [][\A p \in Procs :
             C14_TargetGone(p) =>
                /\ handlers'[p].outcome[1] =
                      IF handlers[p].intent = "delete_task"
                      THEN Returned(Reply("Failed to delete task "
                                          \o PyStr(handlers[p].task_id) \o "."))
                      ELSE C14_ApologyReply(handlers[p].intent, NoneTypeTitle)
                /\ tasks' = tasks]_vars

\* an update handler has found its task gone while another handler's store call raised
C14_Witness ==
    \E p, q \in Procs :
       /\ C14_Ended(p) /\ C14_Ended(q)
       /\ handlers[p].intent = "update_task" /\ handlers[p].failure = "task_gone"
       /\ handlers[p].outcome[1] = C14_ApologyReply("update_task", NoneTypeTitle)
       /\ handlers[q].failure = "store_error"
       /\ handlers[q].outcome[1] = C14_ApologyReply(handlers[q].intent, StoreError)

\* handler p has returned the confirmation of a CompleteTask it performed on the task
C18_Completed(p, id) ==
    /\ handlers[p].pc = "done"
    /\ handlers[p].intent = "complete_task"
    /\ handlers[p].task_id = id
    /\ handlers[p].failure = "none"
    /\ ~IsNone(handlers[p].found)

\* C18: of two CompleteTask commands run concurrently on one pending task by its owner,
\* exactly one performs the completing update; the other finds the task completed.
C18_OnlyOneCompletes ==
    \A p, q \in Procs, id \in TaskIds :
       p # q => ~(C18_Completed(p, id) /\ C18_Completed(q, id))

\* C21: a chat AddTask whose title is empty after trimming whitespace and stripping the
\* surrounding quote characters returns the clarification message and creates no task;
\* the task a chat AddTask creates never has an empty title.
C21_EmptyTitleAddIsRefused ==
    ChatIntent("add_task") =>
       /\ AddCleanTitle(call.parsed[1].task_title) = "" =>
             /\ call.res.response =
                   Reply("I need to know what task you want to add. Please specify a task title.")
             /\ Db = call.pre
       /\ \A id \in DOMAIN tasks \ DOMAIN call.pre.tasks : tasks[id].title # ""

\* the chat UpdateTask names a stored task of the caller and its title sanitizes to ""
C22_SanitizedToEmpty ==
    /\ C6_ChatRetitles
    /\ _clean_task_title(call.parsed[1].task_title, ChatTaskId) = ""

\* C22: an UpdateTask on a stored task of the caller whose sanitized title (command
\* words and the id removed, quotes and whitespace stripped) is empty is not applied:
\* the stored title is unchanged.
C22_EmptySanitizedTitleNotApplied ==
    C22_SanitizedToEmpty =>
       /\ ChatTaskId \in DOMAIN tasks
       /\ tasks[ChatTaskId].title = call.pre.tasks[ChatTaskId].title

\* the rule groups of the deterministic cascade, highest priority first
C23_Groups ==
    <<[intent |-> "update_task", words |-> {"update", "change", "edit", "modify"}],
      [intent |-> "complete_task", words |-> {"complete", "done", "finish", "mark"}],
      [intent |-> "delete_task",
       words |-> {"get rid of", "get rid", "delete", "remove", "cancel", "erase", "trash",
                  "discard"}],
      [intent |-> "add_task", words |-> {"add", "create", "new", "remember"}],
      [intent |-> "list_tasks",
       words |-> {"list", "show", "what", "display", "all", "tasks"}]>>

\* the groups that have a keyword in the lower-cased message
C23_Matching(message) ==
    {g \in 1..Len(C23_Groups) : ContainsAny(PyLower(message), C23_Groups[g].words)}

\* the kind of the highest-priority matching group, Unknown when no group matches
C23_Kind(message) ==
    LET m == C23_Matching(message) IN
    IF m = {} THEN "unknown"
    ELSE C23_Groups[CHOOSE g \in m : \A h \in m : g <= h].intent

C23_FallbackPath == call.op = "parsed" /\ call.gemini.kind \in {"unconfigured", "raises"}

\* C23: under the fallback path a message is classified by the highest-priority rule
\* group that has a keyword in its lower-cased text, in the order update > complete >
\* delete > add > list; a message without any keyword is classified as Unknown.
C23_HighestPriorityGroupWins ==
    C23_FallbackPath =>
       /\ call.out.ok
       /\ call.out.val.intent = C23_Kind(call.message)

\* C23 on the messages of one line that the title extraction does not choke on: there
\* the classification is the one of the highest-priority group
C23_OnEasyMessages ==
    C23_FallbackPath /\ call.out.ok /\ ~PyContains(call.message, "\n") =>
       call.out.val.intent = C23_Kind(call.message)

C23_Witness ==
    /\ C23_FallbackPath
    /\ Cardinality(C23_Matching(call.message)) >= 3
    /\ call.out.ok


\* the task id the cascade's rule selects: the first run of digits of the message for
\* the kinds that name a task, none for the others
C26_SelectedId(message) ==
    IF C23_Kind(message) \in {"update_task", "complete_task", "delete_task"}
          /\ FirstDigitRun(message) # ""
    THEN Some(PyInt(FirstDigitRun(message)))
    ELSE None

\* the task id of the command, none for the kinds whose handlers read no task id
C26_ExecutedId(command) ==
    IF command.intent \in {"update_task", "complete_task", "delete_task"}
    THEN command.task_id
    ELSE None

\* C26: with the model unavailable, for every message, messages of several lines whose
\* title holds a line that begins INTENT: or TASK_ID: included, the kind and the task
\* id of the executed command are the ones selected by the first matching rule of the
\* cascade; parsing the rendered text again never changes them.
C26_ReparseKeepsKindAndId ==
    C23_FallbackPath =>
       /\ call.out.ok
       /\ call.out.val.intent = C23_Kind(call.message)
       /\ C26_ExecutedId(call.out.val) = C26_SelectedId(call.message)

\* on the messages of one line the parse of the rendered text keeps kind and task id
C26_OneLineKeepsKindAndId ==
    C23_FallbackPath /\ call.out.ok /\ ~PyContains(call.message, "\n") =>
       /\ call.out.val.intent = C23_Kind(call.message)
       /\ C26_ExecutedId(call.out.val) = C26_SelectedId(call.message)


\* the tasks of the requester before the request
C25_Own == {r \in Rows(call.pre) : r.user_id = call.user}

\* the entries of the rendered list that show the task
C25_EntriesOf(r) ==
    {k \in DOMAIN call.res.response.entries : call.res.response.entries[k].task = r}

\* C25: the list command answers with the 'no tasks yet' message exactly when the owner
\* has no task; otherwise the reply lists every task of the owner exactly once and no
\* other task, the pending tasks before the completed ones, and its summary counts
\* (total = pending + completed) are the counts of the owner's tasks.
C25_ListShowsOwnTasksOnce ==
    ChatIntent("list_tasks") =>
       LET resp == call.res.response IN
       /\ Db = call.pre
       /\ (resp = Reply("You don't have any tasks yet. Try adding one by saying 'Add a task to...'"))
             <=> (C25_Own = {})
       /\ C25_Own # {} =>
             /\ resp.text = "YOUR TASKS"
             /\ \A r \in C25_Own : Cardinality(C25_EntriesOf(r)) = 1
             /\ \A k \in DOMAIN resp.entries :
                   /\ resp.entries[k].task \in C25_Own
                   /\ resp.entries[k].section =
                         IF resp.entries[k].task.completed THEN "completed" ELSE "pending"
                   /\ \A j \in 1..(k - 1) :
                         resp.entries[j].section = "completed" =>
                            resp.entries[k].section = "completed"
             /\ resp.total = resp.n_pending + resp.n_completed
             /\ resp.total = Cardinality(C25_Own)
             /\ resp.n_pending = Cardinality({r \in C25_Own : ~r.completed})
             /\ resp.n_completed = Cardinality({r \in C25_Own : r.completed})

\* a list of a pending and a completed task of the requester
C25_Witness ==
    /\ ChatIntent("list_tasks")
    /\ \E r, q \in C25_Own : ~r.completed /\ q.completed
    /\ Len(call.res.response.entries) = 2

\* the requester has no task while another user has one
C25_WitnessNoTasks ==
    /\ ChatIntent("list_tasks")
    /\ C25_Own = {}
    /\ Rows(call.pre) # {}
    /\ call.res.response.text # "YOUR TASKS"


\* the stored message is the given message of the request's conversation and user
C24_Stored(m, role, content) ==
    /\ m.role = role
    /\ m.content = content
    /\ m.user_id = call.user
    /\ m.conversation_id = PyInt(call.resolved)

\* the request was accepted: its conversation was resolved and it has not failed
C24_Accepted ==
    /\ call.op = "chat_endpoint"
    /\ call.pc = "done" => call.res[1].status = 200

\* C24: in every accepted chat request the user's message is stored before the intent
\* parser is invoked and the assistant's reply after the executor has returned; a
\* successful request appends exactly these two messages to the resolved conversation,
\* the user's message first.
C24_UserStoredFirstReplyLast ==
    C24_Accepted =>
       LET n == Len(call.pre_log.messages) IN
       /\ SubSeq(messages, 1, n) = call.pre_log.messages
       /\ call.pc = "store_user" => Len(messages) = n /\ IsNone(call.response)
       /\ call.pc = "process" =>
             /\ Len(messages) = n + 1
             /\ C24_Stored(messages[n + 1], "user", Reply(call.message))
             /\ IsNone(call.response)
             /\ Db = call.pre
       /\ call.pc = "store_assistant" =>
             /\ Len(messages) = n + 1
             /\ C24_Stored(messages[n + 1], "user", Reply(call.message))
             /\ ~IsNone(call.response)
       /\ call.pc = "done" =>
             /\ Len(messages) = n + 2
             /\ C24_Stored(messages[n + 1], "user", Reply(call.message))
             /\ C24_Stored(messages[n + 2], "assistant", call.res[1].body.response)
             /\ call.res[1].body.response = call.response[1].response
             /\ messages[n + 1].created_at < messages[n + 2].created_at
             /\ PyStr(messages[n + 2].conversation_id) = call.res[1].body.conversation_id

\* a successful request that continued a conversation and changed a task
C24_Witness ==
    /\ C24_Accepted /\ call.pc = "done"
    /\ Len(messages) = 4
    /\ messages[3].conversation_id = 1
    /\ messages[3].content = Reply("delete task 1")
    /\ Db # call.pre


\* C27: every stored message references an existing conversation and has the owner of
\* that conversation.
C27_MessagesBelongToOwnersConversation ==
    \A k \in DOMAIN messages :
       /\ messages[k].conversation_id \in DOMAIN conversations
       /\ conversations[messages[k].conversation_id].id = messages[k].conversation_id
       /\ messages[k].user_id = conversations[messages[k].conversation_id].user_id

\* two users have a conversation each, with the two messages of one request each
C27_Witness ==
    /\ Len(conversations) = 2
    /\ conversations[1].user_id = "alice" /\ conversations[2].user_id = "bob"
    /\ Len(messages) = 4
    /\ messages[2].conversation_id = 1 /\ messages[2].user_id = "alice"
    /\ messages[4].conversation_id = 2 /\ messages[4].user_id = "bob"

\* a request of bob that named the conversation of alice was rejected and stored nothing
C27_WitnessRejected ==
    /\ Len(conversations) = 1 /\ conversations[1].user_id = "alice"
    /\ Len(messages) = 2
    /\ call.op = "chat_endpoint" /\ call.user = "bob"
    /\ call.conversation_id = Some("1")
    /\ call.pc = "done" /\ call.res[1].status = 500


\* in this step handler p, which had found its task, runs its mutation after a
\* concurrent request has deleted that task
C28_MutatesDeletedTask(p) ==
    /\ handlers[p].pc = "mutate"
    /\ handlers[p].intent \in {"complete_task", "update_task", "delete_task"}
    /\ ~IsNone(handlers[p].found)
    /\ handlers[p].task_id \notin DOMAIN tasks
    /\ handlers'[p].pc = "done"

\* the reply is an apology or a failure message, not one of the confirmations
C28_IsFailureReply(reply) ==
    /\ \/ PyStartsWith(reply.text, "Sorry, I couldn't ")
       \/ PyStartsWith(reply.text, "Failed to ")
    /\ ~PyContains(reply.text, "marked as complete!")
    /\ ~PyContains(reply.text, "updated!")
    /\ ~PyContains(reply.text, "has been deleted.")

\* C28: when a concurrent request deletes the task between the lookup and the mutation
\* of a CompleteTask, UpdateTask or DeleteTask handler, the handler replies with a
\* failure or apology message and not with a confirmation, and the deleted task does
\* not reappear.
C28_DeletedTaskFailsAndStaysDeleted ==
    /\ [][\A p \in Procs :
             C28_MutatesDeletedTask(p) =>
                /\ handlers'[p].outcome[1].ok
                /\ C28_IsFailureReply(handlers'[p].outcome[1].val)
                /\ handlers[p].task_id \notin DOMAIN tasks']_vars
    /\ [][\A id \in 1..(next_id - 1) : id \notin DOMAIN tasks => id \notin DOMAIN tasks']_vars

\* a delete handler has lost its task to the delete of a concurrent handler
C28_Witness ==
    \E p, q \in Procs :
       /\ handlers[p].pc = "done" /\ handlers[p].intent = "delete_task"
       /\ handlers[p].failure = "task_gone"
       /\ handlers[p].outcome[1] = Returned(Reply("Failed to delete task 1."))
       /\ handlers[q].pc = "done" /\ handlers[q].intent = "delete_task"
       /\ handlers[q].failure = "none"
       /\ 1 \notin DOMAIN tasks /\ next_id > 1


====
